---- MODULE Spec2Model ----
(***************************************************************************)
(* The shared transposition table of Viridithas                            *)
(* (src/src/transpositiontable.rs): the packed 64-bit entry, the           *)
(* multiply-high index map, resize / clear / store / probe / hashfull and  *)
(* the mate-score transform.                                               *)
(*                                                                         *)
(* A 64-bit word is a tuple of four 16-bit limbs, least significant first  *)
(* (TLC integers are 32 bits wide): limb 1 = key fragment, limb 2 = move,  *)
(* limb 3 = score, limb 4 = depth byte + 256 * flag byte.  A 64-bit hash   *)
(* key is a tuple of four 16-bit limbs in the same order.                  *)
(*                                                                         *)
(* Spec is the table under one caller; SpecConc is the table shared by a   *)
(* clearing thread and two search threads, one atomic access per step;     *)
(* SpecMate, SpecCodec and SpecIndex apply the pure functions to bounded   *)
(* inputs.  threads and ghost are used by SpecConc only.                   *)
(***************************************************************************)
EXTENDS Integers, Sequences, FiniteSets, TLC

VARIABLES table, last, threads, ghost

vars == <<table, last, threads, ghost>>

(***************************************************************************)
(* Program constants.                                                      *)
(***************************************************************************)
MINIMUM_MATE_SCORE == 30000

INFINITY == 32000

MAX_DEPTH == 64

TT_ENTRY_SIZE == 8

HASHFULL_CELLS == 1000

\* HFlag discriminants
None == 0

UpperBound == 1

LowerBound == 2

Exact == 3

\* Move::NULL, the null move token
Move_NULL == 0

is_null(m) == m = Move_NULL

(***************************************************************************)
(* Fixed-width integer conversions.                                        *)
(***************************************************************************)
\* two's complement reinterpretation of a 16-bit pattern as i16 and back
AsI16(u) == IF u >= 32768 THEN u - 65536 ELSE u

AsU16(x) == x % 65536

\* two's complement reinterpretation of an 8-bit pattern as i8 and back
AsI8(u) == IF u >= 128 THEN u - 256 ELSE u

AsU8(x) == x % 256

\* variant: the score is narrowed to an unsigned 16-bit integer
FitsI16_Unsigned(x) == x >= 0 /\ x <= 65535

\* i32 -> i16 and Depth -> CompactDepthStorage: checked narrowing (try_into)
FitsI16(x) == x >= -32768 /\ x <= 32767

FitsI8(x) == x >= -128 /\ x <= 127

(***************************************************************************)
(* Entry codec.                                                            *)
(***************************************************************************)
TTEntry_NULL == [key |-> 0, m |-> Move_NULL, score |-> 0, depth |-> 0, flag |-> None]

\* the mask that keeps the low two bits of the flag byte, limb by limb
HFLAG_MASK == <<65535, 65535, 65535, 1023>>

\* variant: the flag byte is not masked
MaskWord_None(w, mask) == w

\* bitwise AND of a word with a mask whose limbs are all of the form 2^k - 1
MaskWord(w, mask) == [i \in 1..4 |-> w[i] % (mask[i] + 1)]

\* impl From<u64> for TTEntry
TTEntryFromU64(data) ==
    LET w == MaskWord(data, HFLAG_MASK)
    IN  [key   |-> w[1],
         m     |-> w[2],
         score |-> AsI16(w[3]),
         depth |-> AsI8(w[4] % 256),
         flag  |-> w[4] \div 256]

\* impl From<TTEntry> for u64
U64FromTTEntry(entry) ==
    <<entry.key, entry.m, AsU16(entry.score), AsU8(entry.depth) + 256 * entry.flag>>

NULL_WORD == U64FromTTEntry(TTEntry_NULL)

(***************************************************************************)
(* Hash-to-index map and key fragment.                                     *)
(***************************************************************************)
\* key as u16
pack_key(key) == key[1]

\* ((key as u128 * len as u128) >> 64), by schoolbook multiplication of the
\* four limbs of key by len (len < 2^15 keeps every partial product in range)
\* variant: the product is rounded up instead of truncated
wrap_RoundUp(key, len) ==
    LET p0  == key[1] * len
        p1  == key[2] * len + (p0 \div 65536)
        p2  == key[3] * len + (p1 \div 65536)
        p3  == key[4] * len + (p2 \div 65536)
    IN  (p3 + 65535) \div 65536

wrap(key, len) ==
    LET p0  == key[1] * len
        p1  == key[2] * len + (p0 \div 65536)
        p2  == key[3] * len + (p1 \div 65536)
        p3  == key[4] * len + (p2 \div 65536)
    IN  p3 \div 65536

\* wrap_key of the view of table t
wrap_key(t, key) == wrap(key, Len(t))

(***************************************************************************)
(* Mate-score transform.                                                   *)
(***************************************************************************)
\* variant: the ply is not added on store
normalise_mate_score_NoPly(score, ply) == score

normalise_mate_score(score, ply) ==
    IF score > MINIMUM_MATE_SCORE THEN score + ply
    ELSE IF score < -MINIMUM_MATE_SCORE THEN score - ply
    ELSE score

\* variant: the mate threshold is inclusive on reconstruction
reconstruct_mate_score_Inclusive(score, ply) ==
    IF score >= MINIMUM_MATE_SCORE THEN score - ply
    ELSE IF score <= -MINIMUM_MATE_SCORE THEN score + ply
    ELSE score

reconstruct_mate_score(score, ply) ==
    IF score > MINIMUM_MATE_SCORE THEN score - ply
    ELSE IF score < -MINIMUM_MATE_SCORE THEN score + ply
    ELSE score

(***************************************************************************)
(* Table operations as functions of the table contents.                    *)
(***************************************************************************)
\* the cell at 0-based index i
Cell(t, i) == t[i + 1]

\* variant: the write is made in two halves and only the low half lands
AtomicStore_Torn(t, index, word) ==
    [t EXCEPT ![index + 1] = <<word[1], word[2], @[3], @[4]>>]

\* variant: the write lands one cell further (modulo the length)
AtomicStore_Next(t, index, word) == [t EXCEPT ![((index + 1) % Len(t)) + 1] = word]

\* self.table[index].store(word, SeqCst)
AtomicStore(t, index, word) == [t EXCEPT ![index + 1] = word]

\* variant: the slot's move is not inherited
InheritMove_Never(best_move, entry) == best_move

\* if best_move.is_null() { best_move = entry.m }
InheritMove(best_move, entry) == IF is_null(best_move) THEN entry.m ELSE best_move

\* variant: no promotion of a non-Exact entry to Exact
ShouldReplace_NoPromote(ROOT, entry, key16, flag, depth) ==
    \/ ROOT
    \/ entry.key # key16
    \/ (depth + flag) * 3 >= (entry.depth + entry.flag) * 2

\* variant: the quality band is strict
ShouldReplace_Strict(ROOT, entry, key16, flag, depth) ==
    \/ ROOT
    \/ entry.key # key16
    \/ (flag = Exact /\ entry.flag # Exact)
    \/ (depth + flag) * 3 > (entry.depth + entry.flag) * 2

\* variant: a different key fragment does not force replacement
ShouldReplace_NoKey(ROOT, entry, key16, flag, depth) ==
    \/ ROOT
    \/ (flag = Exact /\ entry.flag # Exact)
    \/ (depth + flag) * 3 >= (entry.depth + entry.flag) * 2

\* variant: the comparison of the quality band is reversed
ShouldReplace_Reversed(ROOT, entry, key16, flag, depth) ==
    \/ ROOT
    \/ entry.key # key16
    \/ (flag = Exact /\ entry.flag # Exact)
    \/ (depth + flag) * 3 <= (entry.depth + entry.flag) * 2

\* the replacement decision of store
ShouldReplace(ROOT, entry, key16, flag, depth) ==
    LET insert_flag_bonus == flag
        record_flag_bonus == entry.flag
        insert_depth == depth + insert_flag_bonus
        record_depth == entry.depth + record_flag_bonus
    IN  \/ ROOT
        \/ entry.key # key16
        \/ (flag = Exact /\ entry.flag # Exact)
        \/ insert_depth * 3 >= record_depth * 2

\* store<ROOT>: the table afterwards, whether the call panicked (index out of
\* bounds, failed narrowing of score or depth) and whether it wrote the cell
store(ROOT, t, key, ply, best_move, score, flag, depth) ==
    LET index == wrap_key(t, key)
    IN  IF index >= Len(t)
        THEN [table |-> t, outcome |-> "Panic", wrote |-> FALSE]
        ELSE
        LET key16 == pack_key(key)
            entry == TTEntryFromU64(Cell(t, index))
            bm    == InheritMove(best_move, entry)
            sc    == normalise_mate_score(score, ply)
        IN  IF ShouldReplace(ROOT, entry, key16, flag, depth)
            THEN IF FitsI16(sc) /\ FitsI8(depth)
                 THEN LET write == [key |-> key16, m |-> bm, score |-> sc,
                                    depth |-> depth, flag |-> flag]
                      IN  [table   |-> AtomicStore(t, index, U64FromTTEntry(write)),
                           outcome |-> "Ok", wrote |-> TRUE]
                 ELSE [table |-> t, outcome |-> "Panic", wrote |-> FALSE]
            ELSE [table |-> t, outcome |-> "Ok", wrote |-> FALSE]

\* ProbeResult
Cutoff(v) == [kind |-> "Cutoff", value |-> v]

Hit(m, d, b, v) == [kind |-> "Hit", tt_move |-> m, tt_depth |-> d, tt_bound |-> b, tt_value |-> v]

Nothing == [kind |-> "Nothing"]

\* self.table[index] with index out of bounds
ProbePanic == [kind |-> "Panic"]

\* variant: the comparison of the depth gate is reversed
TooShallow_Reversed(entry, depth) == depth < entry.depth

\* if e_depth < depth { return Hit(raw stored score) }
TooShallow(entry, depth) == entry.depth < depth

ShallowHit(entry) == Hit(entry.m, entry.depth, entry.flag, entry.score)

\* variant: the bound test uses the raw stored score
ProbeUpperBound_Raw(ROOT, entry, score, alpha) ==
    IF ~ROOT /\ entry.score <= alpha
    THEN Cutoff(alpha)
    ELSE Hit(entry.m, entry.depth, UpperBound, entry.score)

\* the arms of match entry.flag; score is the reconstructed score
ProbeUpperBound(ROOT, entry, score, alpha) ==
    IF ~ROOT /\ score <= alpha
    THEN Cutoff(alpha)
    ELSE Hit(entry.m, entry.depth, UpperBound, entry.score)

ProbeLowerBound(ROOT, entry, score, beta) ==
    IF ~ROOT /\ score >= beta
    THEN Cutoff(beta)
    ELSE Hit(entry.m, entry.depth, LowerBound, entry.score)

\* variant: an Exact entry cuts at the root too
ProbeExact_RootCuts(ROOT, entry, score) == Cutoff(score)

ProbeExact(ROOT, entry, score) ==
    IF ROOT
    THEN Hit(entry.m, entry.depth, Exact, entry.score)
    ELSE Cutoff(score)

\* probe<ROOT>
probe(ROOT, t, key, ply, alpha, beta, depth) ==
    LET index == wrap_key(t, key)
    IN  IF index >= Len(t) THEN ProbePanic
        ELSE
        LET key16 == pack_key(key)
            entry == TTEntryFromU64(Cell(t, index))
            score == reconstruct_mate_score(entry.score, ply)
        IN  IF entry.key # key16 THEN Nothing
            ELSE IF TooShallow(entry, depth) THEN ShallowHit(entry)
            ELSE IF entry.flag = None THEN Nothing
            ELSE IF entry.flag = UpperBound THEN ProbeUpperBound(ROOT, entry, score, alpha)
            ELSE IF entry.flag = LowerBound THEN ProbeLowerBound(ROOT, entry, score, beta)
            ELSE ProbeExact(ROOT, entry, score)

\* hashfull
hashfull(t) ==
    LET n == IF Len(t) < HASHFULL_CELLS THEN Len(t) ELSE HASHFULL_CELLS
    IN  Cardinality({i \in 1..n : TTEntryFromU64(t[i]).key # 0})

\* Vec::resize_with(new_len, || NULL): truncate, or pad with NULL words
resize_with(t, new_len) ==
    [i \in 1..new_len |-> IF i <= Len(t) THEN t[i] ELSE NULL_WORD]

\* for_each(|x| x.store(NULL)): every cell becomes the NULL word
zero_fill(t) == [i \in 1..Len(t) |-> NULL_WORD]

\* variant: resize without the final zero fill
resize_NoFill(t, bytes) == resize_with(t, bytes \div TT_ENTRY_SIZE)

\* resize(bytes)
resize(t, bytes) ==
    LET new_len == bytes \div TT_ENTRY_SIZE
    IN  zero_fill(resize_with(t, new_len))

\* variant: clear stops one cell short
clear_Short(t) == [i \in 1..Len(t) |-> IF i = Len(t) THEN t[i] ELSE NULL_WORD]

\* clear()
clear(t) == zero_fill(t)

(***************************************************************************)
(* Inputs of the model.                                                    *)
(***************************************************************************)
MaxLen == 2

\* 64-bit keys, least significant limb first.  K0 has fragment 0; KA is
\* 0xDEADBEEF and shares cell 0 with K0 in every table; KB has KA's fragment
\* and its top bit set, so it shares cell 0 with KA in a table of one cell
\* and falls in cell 1 of a longer table.
K0 == <<0, 0, 0, 0>>

KA == <<48879, 57005, 0, 0>>

KB == <<48879, 0, 0, 32768>>

Keys == {K0, KA, KB}

Moves == {Move_NULL, 1}

Plies == {0, 3}

Scores == {42, -50, 30500, -30500}

StoreFlags == {UpperBound, LowerBound, Exact}

Depths == {3, 8}

ProbeDepths == {0, 3, 8}

Windows == {<<-100, 100>>, <<-20, 30>>, <<30500, 30502>>}

ByteSizes == {n * TT_ENTRY_SIZE + r : n \in 0..MaxLen, r \in {0, TT_ENTRY_SIZE - 1}}

\* Depth and CompactDepthStorage are whole plies; every argument below lies in
\* the ranges that the debug checks of store and probe require.
\* the arguments of store: every combination for K0 and KA, two calls for KB,
\* and two calls at the largest ply and depth with the scores INFINITY and
\* i16::MAX
StoreArgs ==
    [root : BOOLEAN, key : {K0, KA}, ply : Plies, m : Moves, score : Scores,
     flag : StoreFlags, depth : Depths]
    \cup
    [root : {FALSE}, key : {KB}, ply : {0}, m : {1}, score : {42},
     flag : {UpperBound, Exact}, depth : {3}]
    \cup
    [root : {FALSE}, key : {KA}, ply : {MAX_DEPTH}, m : {1}, score : {INFINITY, 32767},
     flag : {Exact}, depth : {MAX_DEPTH}]

ProbeArgs ==
    [root : BOOLEAN, key : Keys, ply : Plies, window : Windows, depth : ProbeDepths]

(***************************************************************************)
(* The state machine: one caller, one operation per step.  last is the     *)
(* call that has just completed (its arguments, the table before it and    *)
(* its result) until the caller moves on (Return); a panic ends the run.   *)
(***************************************************************************)
Idle == [op |-> "idle"]

\* the threads that share a view of the table: the UCI thread, which calls
\* clear between games, and two search threads, which call store and probe;
\* threads is the position and the locals of each of them
Writers == {"w1", "w2"}

Threads == {"uci"} \cup Writers

IdleThread == [pc |-> "idle"]

\* ghost.shadow[i] is the word of the last atomic write to cell i, whether
\* NULL or a store call wrote it, and whether it was issued after the latest
\* clear started; ghost.cleared holds from the return of a clear to the start
\* of the next
GhostOf(t) ==
    [shadow  |-> [i \in 1..Len(t) |-> [word |-> NULL_WORD, src |-> "null", fresh |-> FALSE]],
     cleared |-> FALSE]

\* TranspositionTable::new()
Init ==
    /\ table = <<>>
    /\ last = Idle
    /\ threads = [t \in Threads |-> IdleThread]
    /\ ghost = GhostOf(table)

Resize ==
    /\ last = Idle
    /\ \E bytes \in ByteSizes :
          /\ table' = resize(table, bytes)
          /\ last' = [op |-> "resize", bytes |-> bytes, pre |-> table]
    /\ UNCHANGED <<threads, ghost>>

Clear ==
    /\ last = Idle
    /\ table' = clear(table)
    /\ last' = [op |-> "clear", pre |-> table]
    /\ UNCHANGED <<threads, ghost>>

Store ==
    /\ last = Idle
    /\ \E a \in StoreArgs :
          LET r == store(a.root, table, a.key, a.ply, a.m, a.score, a.flag, a.depth)
          IN  /\ table' = r.table
              /\ last' = [op |-> "store", root |-> a.root, key |-> a.key, ply |-> a.ply,
                          m |-> a.m, score |-> a.score, flag |-> a.flag,
                          depth |-> a.depth, pre |-> table,
                          outcome |-> r.outcome, wrote |-> r.wrote]
    /\ UNCHANGED <<threads, ghost>>

Probe ==
    /\ last = Idle
    /\ \E a \in ProbeArgs :
          /\ last' = [op |-> "probe", root |-> a.root, key |-> a.key, ply |-> a.ply,
                      alpha |-> a.window[1], beta |-> a.window[2], depth |-> a.depth,
                      pre |-> table,
                      res |-> probe(a.root, table, a.key, a.ply,
                                    a.window[1], a.window[2], a.depth)]
          /\ UNCHANGED table
    /\ UNCHANGED <<threads, ghost>>

Hashfull ==
    /\ last = Idle
    /\ last' = [op |-> "hashfull", pre |-> table, res |-> hashfull(table)]
    /\ UNCHANGED table
    /\ UNCHANGED <<threads, ghost>>

Panicked ==
    \/ (last.op = "store" /\ last.outcome = "Panic")
    \/ (last.op = "probe" /\ last.res.kind = "Panic")

\* the call returns to the caller
Return ==
    /\ last # Idle
    /\ ~Panicked
    /\ last' = Idle
    /\ UNCHANGED table
    /\ UNCHANGED <<threads, ghost>>

Next == Resize \/ Clear \/ Store \/ Probe \/ Hashfull \/ Return

Spec == Init /\ [][Next]_vars

(***************************************************************************)
(* Properties.  PreEntry is the entry the completed call loaded: the       *)
(* decoded cell of the table before the call at the index of its key.      *)
(***************************************************************************)
PreEntry == TTEntryFromU64(Cell(last.pre, wrap_key(last.pre, last.key)))

PostEntry == TTEntryFromU64(Cell(table, wrap_key(table, last.key)))

StoreReturned == last.op = "store" /\ last.outcome = "Ok"

ProbeReturned == last.op = "probe" /\ last.res.kind # "Panic"

\* the non-root Exact store at ply 0 of a non-mate score that C1 is about
ExactStoreAtPly0 ==
    /\ StoreReturned
    /\ ~last.root
    /\ last.ply = 0
    /\ last.flag = Exact
    /\ last.score <= MINIMUM_MATE_SCORE
    /\ last.score >= -MINIMUM_MATE_SCORE

\* every window around the stored score yields Cutoff(score) at the stored depth
ProbeCutsAtStoredScore ==
    \A w \in Windows :
        (w[1] < last.score /\ last.score < w[2])
        => probe(FALSE, table, last.key, 0, w[1], w[2], last.depth) = Cutoff(last.score)

\* C1 as stated: in every reachable table of length >= 1, right after
\* store<false>(key, 0, m, s, Exact, d) with a non-mate s, probe<false>(key, 0,
\* alpha, beta, d) returns Cutoff(s) for every window with alpha < s < beta.
C1_StoreThenProbe_AsStated == ExactStoreAtPly0 => ProbeCutsAtStoredScore

\* C1 amended: the same, provided the store replaced the slot: the entry it
\* found had another key fragment, or was not Exact, or 3*(d+3) >= 2*(d0+3).
C1_StoreThenProbe ==
    (/\ ExactStoreAtPly0
     /\ \/ PreEntry.key # pack_key(last.key)
        \/ PreEntry.flag # Exact
        \/ 3 * (last.depth + 3) >= 2 * (PreEntry.depth + 3))
    => ProbeCutsAtStoredScore

C1_Witness ==
    /\ ExactStoreAtPly0
    /\ last.score = 42
    /\ PreEntry.key = pack_key(last.key)
    /\ PreEntry.flag = LowerBound
    /\ PreEntry.depth > last.depth
    /\ probe(FALSE, table, last.key, 0, -100, 100, last.depth) = Cutoff(42)

\* C2: a probe with ROOT=true that returns, returns Hit or Nothing, never
\* Cutoff, whatever the entry of the slot.
C2_RootNeverCuts ==
    (ProbeReturned /\ last.root) => last.res.kind \in {"Hit", "Nothing"}

C2_Witness ==
    /\ ProbeReturned
    /\ last.root
    /\ PreEntry.key = pack_key(last.key)
    /\ PreEntry.flag = Exact
    /\ PreEntry.depth >= last.depth
    /\ last.res.kind = "Hit"

\* the probe found its key fragment in the slot, with the given flag
ProbeFound(flag) ==
    /\ ProbeReturned
    /\ PreEntry.key = pack_key(last.key)
    /\ PreEntry.flag = flag

\* the stored score of the probed entry after mate reconstruction at the ply
\* of the probe
PreScoreAtPly ==
    IF PreEntry.score > 30000 THEN PreEntry.score - last.ply
    ELSE IF PreEntry.score < -30000 THEN PreEntry.score + last.ply
    ELSE PreEntry.score

PreHit(flag) == Hit(PreEntry.m, PreEntry.depth, flag, PreEntry.score)

\* C3 as stated: an UpperBound entry with stored score s <= alpha gives
\* Cutoff(alpha) to a non-root probe and Hit otherwise (ROOT, or s > alpha);
\* a LowerBound entry with stored s >= beta gives Cutoff(beta) to a non-root
\* probe and Hit otherwise.
C3_BoundSemantics_AsStated ==
    /\ ProbeFound(UpperBound) =>
          IF ~last.root /\ PreEntry.score <= last.alpha
          THEN last.res = Cutoff(last.alpha)
          ELSE last.res.kind = "Hit"
    /\ ProbeFound(LowerBound) =>
          IF ~last.root /\ PreEntry.score >= last.beta
          THEN last.res = Cutoff(last.beta)
          ELSE last.res.kind = "Hit"

\* C3 amended: when the stored depth is not less than the requested depth and
\* s is the stored score after mate reconstruction at the probe's ply, an
\* UpperBound entry with s <= alpha gives Cutoff(alpha) to a non-root probe and
\* a Hit with the raw stored score otherwise; symmetrically for LowerBound and
\* s >= beta; when the stored depth is less than the requested depth the probe
\* returns Hit.
C3_BoundSemantics ==
    /\ ProbeFound(UpperBound) =>
          IF PreEntry.depth < last.depth THEN last.res.kind = "Hit"
          ELSE IF ~last.root /\ PreScoreAtPly <= last.alpha
          THEN last.res = Cutoff(last.alpha)
          ELSE last.res = PreHit(UpperBound)
    /\ ProbeFound(LowerBound) =>
          IF PreEntry.depth < last.depth THEN last.res.kind = "Hit"
          ELSE IF ~last.root /\ PreScoreAtPly >= last.beta
          THEN last.res = Cutoff(last.beta)
          ELSE last.res = PreHit(LowerBound)

\* an UpperBound mate entry that cuts only after reconstruction
C3_Witness ==
    /\ ProbeFound(UpperBound)
    /\ ~last.root
    /\ PreEntry.depth >= last.depth
    /\ PreEntry.score > last.alpha
    /\ PreScoreAtPly <= last.alpha
    /\ last.res = Cutoff(last.alpha)

\* C4: when the slot holds the probe's key fragment at a stored depth less
\* than the requested depth, probe (ROOT or not) returns Hit with the entry's
\* move, stored depth, flag and raw stored score.
C4_DepthGating ==
    (/\ ProbeReturned
     /\ PreEntry.key = pack_key(last.key)
     /\ PreEntry.depth < last.depth)
    => last.res = PreHit(PreEntry.flag)

\* a shallow Exact mate entry probed away from the root at another ply
C4_Witness ==
    /\ ProbeFound(Exact)
    /\ ~last.root
    /\ PreEntry.depth < last.depth
    /\ PreEntry.score > 30000
    /\ last.ply > 0
    /\ last.res = PreHit(Exact)

\* the score a non-root probe at ply p2 gets from the Exact entry just stored
ExpectedAtPly(p2) ==
    IF last.score > 30000 THEN last.score + last.ply - p2
    ELSE IF last.score < -30000 THEN last.score - last.ply + p2
    ELSE last.score

\* C5: after store wrote an Exact entry with score s at ply p1, a non-root
\* probe of the same key at ply p2 with requested depth <= stored depth returns
\* Cutoff(s + p1 - p2) for s > MINIMUM_MATE_SCORE, Cutoff(s - p1 + p2) for
\* s < -MINIMUM_MATE_SCORE, and Cutoff(s) for a non-mate s.
C5_MateAcrossPlies ==
    (StoreReturned /\ last.wrote /\ last.flag = Exact)
    => \A p2 \in Plies, w \in Windows, d \in ProbeDepths :
          d <= last.depth
          => probe(FALSE, table, last.key, p2, w[1], w[2], d) = Cutoff(ExpectedAtPly(p2))

C5_Witness ==
    /\ StoreReturned
    /\ last.wrote
    /\ last.flag = Exact
    /\ last.score = 30500
    /\ last.ply = 3
    /\ PostEntry.score = 30503
    /\ probe(FALSE, table, last.key, 0, -100, 100, 3) = Cutoff(30503)

\* the entry a store that replaces writes: the call's key fragment, flag and
\* depth, its score normalised by its ply, and the given move
Written(m) ==
    [key   |-> last.key[1],
     m     |-> m,
     score |-> IF last.score > 30000 THEN last.score + last.ply
               ELSE IF last.score < -30000 THEN last.score - last.ply
               ELSE last.score,
     depth |-> last.depth,
     flag  |-> last.flag]

\* the move a replacing store writes: its own, or the slot's for the null token
WrittenMove == IF last.m = 0 THEN PreEntry.m ELSE last.m

\* 3*(d1+b1) >= 2*(d0+b0) for the completed store and the entry it found
InBand == 3 * (last.depth + last.flag) >= 2 * (PreEntry.depth + PreEntry.flag)

Promotes == last.flag = 3 /\ PreEntry.flag # 3

\* C6 as stated: a store with 3*(d1+b1) >= 2*(d0+b0) overwrites the slot; a
\* store with 3*(d1+b1) < 2*(d0+b0), the same truncated key and not promoting
\* a non-Exact entry to Exact leaves the slot unchanged.
C6_QualityBand_AsStated ==
    StoreReturned =>
       /\ InBand => PostEntry = Written(WrittenMove)
       /\ (~InBand /\ PreEntry.key = last.key[1] /\ ~Promotes) => table = last.pre

\* C6 amended: a store with 3*(d1+b1) >= 2*(d0+b0) overwrites the slot; a
\* store with ROOT=false, 3*(d1+b1) < 2*(d0+b0), the same truncated key and
\* not promoting a non-Exact entry to Exact leaves the slot unchanged.
C6_QualityBand ==
    StoreReturned =>
       /\ InBand => PostEntry = Written(WrittenMove)
       /\ (~last.root /\ ~InBand /\ PreEntry.key = last.key[1] /\ ~Promotes)
             => table = last.pre

\* a non-root store exactly on the band (3*(3+1) = 2*(3+3)) that replaced an
\* entry of the same key fragment with different contents
C6_Witness ==
    /\ StoreReturned
    /\ ~last.root
    /\ PreEntry.key = last.key[1]
    /\ 3 * (last.depth + last.flag) = 2 * (PreEntry.depth + PreEntry.flag)
    /\ ~Promotes
    /\ table # last.pre
    /\ PostEntry = Written(WrittenMove)

\* C7: a store whose truncated key differs from the key fragment in the slot
\* overwrites it whatever the depths and flags; afterwards the slot holds the
\* new key fragment, flag, depth and ply-normalised score.
C7_ReplaceOnKeyChange ==
    (StoreReturned /\ PreEntry.key # last.key[1])
    => /\ PostEntry.key = Written(0).key
       /\ PostEntry.flag = Written(0).flag
       /\ PostEntry.depth = Written(0).depth
       /\ PostEntry.score = Written(0).score

\* a non-root store of lower quality, not promoting, over another key fragment
C7_Witness ==
    /\ StoreReturned
    /\ ~last.root
    /\ PreEntry.key # last.key[1]
    /\ PreEntry.flag # 0
    /\ ~InBand
    /\ ~Promotes
    /\ PostEntry.key = last.key[1]
    /\ PostEntry.depth = last.depth

\* C8: after a store called with the null move token the move of the slot is
\* the move it held before the call, whether or not the store overwrote the
\* slot; when it did, key, score, depth and flag are those of the call.
C8_NullMoveInheritance ==
    (StoreReturned /\ last.m = 0)
    => /\ PostEntry.m = PreEntry.m
       /\ last.wrote => PostEntry = Written(PreEntry.m)

\* a null-move store that replaced an entry carrying a move with another
\* flag and depth
C8_Witness ==
    /\ StoreReturned
    /\ last.m = 0
    /\ last.wrote
    /\ PreEntry.m # 0
    /\ PreEntry.flag # last.flag
    /\ PreEntry.depth # last.depth
    /\ PostEntry.m = PreEntry.m
    /\ PostEntry.flag = last.flag

\* C9: after resize(bytes) the table has bytes / 8 cells, every cell is the
\* all-zero word, and a probe of any key sees no stored entry: it returns
\* Nothing for a key with a non-zero fragment, and otherwise at most the Hit
\* that the empty cell decodes to.
C9_ResizeDestructive ==
    last.op = "resize"
    => /\ Len(table) = last.bytes \div 8
       /\ \A i \in 1..Len(table) : table[i] = <<0, 0, 0, 0>>
       /\ \A a \in ProbeArgs :
             LET r == probe(a.root, table, a.key, a.ply, a.window[1], a.window[2], a.depth)
             IN  /\ r.kind # "Cutoff"
                 /\ r.kind = "Hit" => r = Hit(0, 0, 0, 0)
                 /\ (Len(table) >= 1 /\ a.key[1] # 0) => r = Nothing

\* a resize to the same length of a table whose first cell held an entry for KA
C9_Witness ==
    /\ last.op = "resize"
    /\ Len(last.pre) = Len(table)
    /\ Len(table) >= 1
    /\ probe(FALSE, last.pre, KA, 0, -100, 100, 0).kind = "Cutoff"
    /\ probe(FALSE, table, KA, 0, -100, 100, 0) = Nothing

\* C10: after clear() every cell is the all-zero word, the length of the
\* table is unchanged and hashfull() is 0.
C10_ClearEmpties ==
    last.op = "clear"
    => /\ Len(table) = Len(last.pre)
       /\ \A i \in 1..Len(table) : table[i] = <<0, 0, 0, 0>>
       /\ hashfull(table) = 0

\* a clear of a table of two cells, both occupied
C10_Witness ==
    /\ last.op = "clear"
    /\ Len(table) = 2
    /\ hashfull(last.pre) = 2
    /\ hashfull(table) = 0

\* the cells that the completed call changed
ChangedCells == {i \in 1..Len(table) : table[i] # last.pre[i]}

\* C16 as stated: every store whose arguments lie in the documented ranges
\* (0 <= ply <= MAX_DEPTH, score >= -INFINITY, 0 <= depth <= MAX_DEPTH, flag in
\* {UpperBound, LowerBound, Exact}), on a table in any state reachable from
\* new(), completes without panicking and performs at most one atomic store.
C16_StoreNeverFails_AsStated ==
    last.op = "store"
    => /\ last.outcome = "Ok"
       /\ Len(table) = Len(last.pre)
       /\ Cardinality(ChangedCells) <= 1

\* C16 amended: the same for -INFINITY <= score <= INFINITY and a table of at
\* least one cell.
C16_StoreNeverFails ==
    (last.op = "store" /\ Len(last.pre) >= 1 /\ last.score <= 32000)
    => /\ last.outcome = "Ok"
       /\ Len(table) = Len(last.pre)
       /\ Cardinality(ChangedCells) <= 1

\* the largest score at the largest ply and depth is stored as 32064
C16_Witness ==
    /\ StoreReturned
    /\ last.score = 32000
    /\ last.ply = 64
    /\ last.depth = 64
    /\ last.wrote
    /\ PostEntry.score = 32064
    /\ PostEntry.depth = 64

\* C17: whenever the probed slot's entry has flag None, probe returns Nothing,
\* for every depth, window, ply and ROOT; probe never returns a Hit whose
\* tt_bound is None.
C17_NoneIsMiss ==
    ProbeReturned
    => /\ PreEntry.flag = 0 => last.res = Nothing
       /\ last.res.kind = "Hit" => last.res.tt_bound # 0

\* C19 (in its one-step form): a store called with the null move token that
\* overwrites the slot writes the move the slot held for the same truncated
\* key, and the null token when the slot held another key fragment.
C19_InheritedMoveSamePosition ==
    (StoreReturned /\ last.m = 0 /\ last.wrote)
    => PostEntry.m = (IF PreEntry.key = last.key[1] THEN PreEntry.m ELSE 0)

\* C20: a store changes at most the cell at wrap_key(key) and leaves every
\* other cell and the length of the table unchanged; probe and hashfull change
\* no cell, so the same probe repeated at once returns the same result.
C20_Frame ==
    /\ last.op = "store" =>
          /\ Len(table) = Len(last.pre)
          /\ \A i \in 1..Len(table) :
                i # wrap_key(last.pre, last.key) + 1 => table[i] = last.pre[i]
    /\ last.op \in {"probe", "hashfull"} => table = last.pre
    /\ last.op = "probe" =>
          probe(last.root, table, last.key, last.ply, last.alpha, last.beta, last.depth)
             = last.res
    /\ last.op = "hashfull" => hashfull(table) = last.res

\* a store that wrote the second cell of a table whose first cell is occupied
C20_Witness ==
    /\ StoreReturned
    /\ last.wrote
    /\ Len(table) = 2
    /\ wrap_key(last.pre, last.key) = 1
    /\ table[2] # last.pre[2]
    /\ table[1] = last.pre[1]
    /\ table[1] # <<0, 0, 0, 0>>

(***************************************************************************)
(* Concurrent callers.  Every atomic load and store of a cell is one step; *)
(* store is a load followed by a conditional store, clear stores NULL cell *)
(* by cell, probe is one load.  All accesses are SeqCst, so the steps of   *)
(* the threads interleave.                                                 *)
(***************************************************************************)
ConcStoreArgs ==
    {[root |-> FALSE, key |-> KA, ply |-> 0, m |-> 1, score |-> 42,
      flag |-> UpperBound, depth |-> 3],
     [root |-> FALSE, key |-> KA, ply |-> 3, m |-> 2, score |-> -30500,
      flag |-> Exact, depth |-> 8],
     [root |-> FALSE, key |-> KB, ply |-> 0, m |-> Move_NULL, score |-> 42,
      flag |-> LowerBound, depth |-> 3]}

ConcProbeArgs ==
    {[root |-> FALSE, key |-> KA, ply |-> 0, window |-> <<-100, 100>>, depth |-> 3],
     [root |-> TRUE, key |-> KB, ply |-> 0, window |-> <<-100, 100>>, depth |-> 8]}

\* the table after new() and resize(MaxLen * 8), shared by idle threads
InitConc ==
    /\ table = resize(<<>>, MaxLen * TT_ENTRY_SIZE)
    /\ last = Idle
    /\ threads = [t \in Threads |-> IdleThread]
    /\ ghost = GhostOf(table)

\* what store does with the entry it loaded: the decision and the word
store_write(a, loaded) ==
    LET entry == TTEntryFromU64(loaded)
        write == [key   |-> pack_key(a.key),
                  m     |-> InheritMove(a.m, entry),
                  score |-> normalise_mate_score(a.score, a.ply),
                  depth |-> a.depth,
                  flag  |-> a.flag]
    IN  [replace |-> ShouldReplace(a.root, entry, pack_key(a.key), a.flag, a.depth),
         word    |-> U64FromTTEntry(write)]

\* store, line 149: the load
StoreLoad(t) ==
    /\ t \in Writers
    /\ threads[t].pc = "idle"
    /\ \E a \in ConcStoreArgs :
          LET index == wrap_key(table, a.key)
          IN  threads' = [threads EXCEPT ![t] =
                  [pc |-> "loaded", a |-> a, index |-> index,
                   word |-> Cell(table, index),
                   origin |-> [word |-> ghost.shadow[index + 1].word,
                               src  |-> ghost.shadow[index + 1].src]]]
    /\ UNCHANGED <<table, last, ghost>>

\* store, lines 167-180: the decision on the loaded entry and the write
StoreWrite(t) ==
    /\ threads[t].pc = "loaded"
    /\ LET me == threads[t]
           w  == store_write(me.a, me.word)
       IN  /\ threads' = [threads EXCEPT ![t] =
                  [pc |-> "stored", a |-> me.a, index |-> me.index, word |-> me.word,
                   origin |-> me.origin, wrote |-> w.replace,
                   before |-> Cell(table, me.index)]]
           /\ IF w.replace
              THEN /\ table' = AtomicStore(table, me.index, w.word)
                   /\ ghost' = [ghost EXCEPT !.shadow[me.index + 1] =
                                   [word |-> w.word, src |-> "store", fresh |-> TRUE]]
              ELSE UNCHANGED <<table, ghost>>
    /\ UNCHANGED last

StoreReturn(t) ==
    /\ threads[t].pc = "stored"
    /\ threads' = [threads EXCEPT ![t] = IdleThread]
    /\ UNCHANGED <<table, last, ghost>>

\* probe: its one load, line 200, and the result computed from it
ProbeLoad(t) ==
    /\ t \in Writers
    /\ threads[t].pc = "idle"
    /\ \E a \in ConcProbeArgs :
          LET index == wrap_key(table, a.key)
          IN  threads' = [threads EXCEPT ![t] =
                  [pc |-> "probed", a |-> a, index |-> index,
                   word |-> Cell(table, index),
                   origin |-> [word |-> ghost.shadow[index + 1].word,
                               src  |-> ghost.shadow[index + 1].src],
                   res |-> probe(a.root, table, a.key, a.ply,
                                 a.window[1], a.window[2], a.depth)]]
    /\ UNCHANGED <<table, last, ghost>>

ProbeReturn(t) ==
    /\ threads[t].pc = "probed"
    /\ threads' = [threads EXCEPT ![t] = IdleThread]
    /\ UNCHANGED <<table, last, ghost>>

\* clear is called: every write made so far precedes it
ClearStart ==
    /\ threads["uci"].pc = "idle"
    /\ threads' = [threads EXCEPT !["uci"] = [pc |-> "clearing", i |-> 0]]
    /\ ghost' = [shadow  |-> [i \in 1..Len(table) |->
                                 [ghost.shadow[i] EXCEPT !.fresh = FALSE]],
                 cleared |-> FALSE]
    /\ UNCHANGED <<table, last>>

\* variant: the iteration of clear stops before the last cell
ClearDone_Short(t, i) == i >= Len(t) - 1

\* self.table.iter() is exhausted
ClearDone(t, i) == i >= Len(t)

\* clear, line 110: x.store(NULL) for the next cell
ClearStep ==
    /\ threads["uci"].pc = "clearing"
    /\ ~ClearDone(table, threads["uci"].i)
    /\ LET i == threads["uci"].i
       IN  /\ table' = AtomicStore(table, i, NULL_WORD)
           /\ ghost' = [ghost EXCEPT !.shadow[i + 1] =
                           [word |-> NULL_WORD, src |-> "null", fresh |-> TRUE]]
           /\ threads' = [threads EXCEPT !["uci"].i = i + 1]
    /\ UNCHANGED last

ClearReturn ==
    /\ threads["uci"].pc = "clearing"
    /\ ClearDone(table, threads["uci"].i)
    /\ threads' = [threads EXCEPT !["uci"] = IdleThread]
    /\ ghost' = [ghost EXCEPT !.cleared = TRUE]
    /\ UNCHANGED <<table, last>>

NextConc ==
    \/ \E t \in Writers : StoreLoad(t)
    \/ \E t \in Writers : StoreWrite(t)
    \/ \E t \in Writers : StoreReturn(t)
    \/ \E t \in Writers : ProbeLoad(t)
    \/ \E t \in Writers : ProbeReturn(t)
    \/ ClearStart
    \/ ClearStep
    \/ ClearReturn

SpecConc == InitConc /\ [][NextConc]_vars

\* the threads that hold a loaded word
Loaders == {t \in Writers : threads[t].pc \in {"loaded", "stored", "probed"}}

\* a word is whole: the all-zero word if NULL was written, and otherwise a
\* word with one of the three flags that store takes
Whole(word, src) ==
    IF src = "null" THEN word = <<0, 0, 0, 0>>
    ELSE (word[4] \div 256) \in {1, 2, 3}

\* C14: under every interleaving of store, probe and clear, each cell holds,
\* and each load returns, either the NULL word or exactly the word of one
\* store call; every decoded entry has a legal flag, a word written by store
\* never has flag None, and every probe returns Cutoff, Hit or Nothing.
C14_NoTearing ==
    /\ \A i \in 1..Len(table) :
          /\ table[i] = ghost.shadow[i].word
          /\ Whole(table[i], ghost.shadow[i].src)
    /\ \A t \in Loaders :
          /\ threads[t].word = threads[t].origin.word
          /\ Whole(threads[t].word, threads[t].origin.src)
          /\ TTEntryFromU64(threads[t].word).flag \in {0, 1, 2, 3}
    /\ \A t \in Writers :
          threads[t].pc = "probed" => threads[t].res.kind \in {"Cutoff", "Hit", "Nothing"}

\* one thread probes the entry another thread wrote over a third one's entry,
\* while clear is half way through the table
C14_Witness ==
    /\ threads["w1"].pc = "probed"
    /\ threads["w1"].origin.src = "store"
    /\ threads["w1"].res.kind = "Cutoff"
    /\ threads["w2"].pc = "stored"
    /\ threads["w2"].wrote
    /\ threads["w2"].before # <<0, 0, 0, 0>>
    /\ threads["uci"].pc = "clearing"
    /\ threads["uci"].i = 1

\* C15: once clear has returned, every cell holds NULL or a word whose write
\* was issued after that clear started.
C15_ClearWithWriters ==
    ghost.cleared => \A i \in 1..Len(table) : ghost.shadow[i].fresh

\* clear has returned and the first cell holds a word that a store, which
\* loaded before the clear passed the cell, wrote after it
C15_Witness ==
    /\ ghost.cleared
    /\ ghost.shadow[1].src = "store"
    /\ ghost.shadow[1].fresh
    /\ table[1] # <<0, 0, 0, 0>>
    /\ \E t \in Writers : threads[t].pc = "stored" /\ threads[t].wrote
                          /\ threads[t].index = 0

\* the replacement condition of the store of thread t against entry e
Condition(t, e) ==
    LET a == threads[t].a
    IN  \/ e.key # a.key[1]
        \/ (a.flag = 3 /\ e.flag # 3)
        \/ 3 * (a.depth + a.flag) >= 2 * (e.depth + e.flag)

\* C18 as stated: whenever a store overwrites the cell, the replacement
\* condition holds with respect to the entry the cell contains immediately
\* before that write.
C18_ConcurrentReplacement_AsStated ==
    \A t \in Writers :
        (threads[t].pc = "stored" /\ threads[t].wrote)
        => Condition(t, TTEntryFromU64(threads[t].before))

\* C18 amended: whenever a store overwrites the cell, the replacement condition
\* holds with respect to the entry that the store loaded.
C18_ConcurrentReplacement ==
    \A t \in Writers :
        (threads[t].pc = "stored" /\ threads[t].wrote)
        => Condition(t, TTEntryFromU64(threads[t].word))

\* a store that loaded one entry and overwrote another, written in between
C18_Witness ==
    \E t \in Writers :
        /\ threads[t].pc = "stored"
        /\ threads[t].wrote
        /\ threads[t].before # threads[t].word
        /\ Condition(t, TTEntryFromU64(threads[t].word))
        /\ ~Condition(t, TTEntryFromU64(threads[t].before))

(***************************************************************************)
(* The pure functions on their own: each specification below starts from   *)
(* the empty table and applies one function to inputs drawn from bounded   *)
(* sets; last records the inputs and the result.                           *)
(***************************************************************************)
Band == 70

\* scores within Band of the ends of [-INFINITY, INFINITY], of the two mate
\* thresholds and of zero
MateScores ==
    {s \in (-INFINITY)..INFINITY :
        \E c \in {-INFINITY, -MINIMUM_MATE_SCORE, 0, MINIMUM_MATE_SCORE, INFINITY} :
            s - c <= Band /\ c - s <= Band}

MateRoundTrip ==
    /\ last = Idle
    /\ \E s \in MateScores, ply \in 0..MAX_DEPTH :
          last' = [op |-> "mate", score |-> s, ply |-> ply,
                   stored |-> normalise_mate_score(s, ply),
                   res |-> reconstruct_mate_score(normalise_mate_score(s, ply), ply)]
    /\ UNCHANGED table
    /\ UNCHANGED <<threads, ghost>>

NextMate == MateRoundTrip

SpecMate == Init /\ [][NextMate]_vars

\* C11: for every score s in [-INFINITY, INFINITY] and every ply in
\* [0, MAX_DEPTH], reconstruct_mate_score(normalise_mate_score(s, ply), ply) = s.
C11_MateRoundTrip == last.op = "mate" => last.res = last.score

\* a mate score whose stored form differs from it
C11_Witness ==
    /\ last.op = "mate"
    /\ last.score = 30001
    /\ last.ply = 64
    /\ last.stored = 30065
    /\ last.res = 30001

U16Samples == {0, 1, 32767, 32768, 48879, 65535}

I16Samples == {-32768, -30503, -1, 0, 42, 32767}

I8Samples == {-128, -1, 0, 64, 127}

FlagBytes == {0, 1, 2, 3, 4, 7, 128, 252, 255}

DepthBytes == {0, 64, 127, 128, 255}

LegalEntries ==
    [key : U16Samples, m : U16Samples, score : I16Samples, depth : I8Samples,
     flag : {None, UpperBound, LowerBound, Exact}]

WordSamples ==
    {<<k, m, sc, d + 256 * f>> :
        k \in {0, 65535}, m \in {0, 48879}, sc \in U16Samples,
        d \in DepthBytes, f \in FlagBytes}

EncodeDecode ==
    /\ last = Idle
    /\ \E e \in LegalEntries :
          last' = [op |-> "encode", entry |-> e, word |-> U64FromTTEntry(e),
                   res |-> TTEntryFromU64(U64FromTTEntry(e))]
    /\ UNCHANGED table
    /\ UNCHANGED <<threads, ghost>>

DecodeEncode ==
    /\ last = Idle
    /\ \E w \in WordSamples :
          last' = [op |-> "decode", word |-> w, entry |-> TTEntryFromU64(w),
                   res |-> U64FromTTEntry(TTEntryFromU64(w))]
    /\ UNCHANGED table
    /\ UNCHANGED <<threads, ghost>>

NextCodec == EncodeDecode \/ DecodeEncode

SpecCodec == Init /\ [][NextCodec]_vars

\* C12: an encoded entry is one 64-bit word (four 16-bit limbs); for every
\* legal entry e, decode(encode(e)) = e; for every word w, decode(w) has a flag
\* in {None, UpperBound, LowerBound, Exact}; and encode(decode(w)) = w whenever
\* the flag byte of w is in {0, 1, 2, 3}.
C12_CodecBijection ==
    /\ last.op = "encode" =>
          /\ last.res = last.entry
          /\ DOMAIN last.word = 1..4
          /\ \A i \in 1..4 : last.word[i] \in 0..65535
    /\ last.op = "decode" =>
          /\ last.entry.flag \in {0, 1, 2, 3}
          /\ (last.word[4] \div 256 \in {0, 1, 2, 3}) => last.res = last.word

\* a word with an illegal flag byte, decoded to a legal flag and not restored
C12_Witness ==
    /\ last.op = "decode"
    /\ last.word[4] \div 256 = 255
    /\ last.entry.flag = 3
    /\ last.res # last.word

\* a negative score and a negative depth byte survive the round trip
C12_WitnessEncode ==
    /\ last.op = "encode"
    /\ last.entry.score = -30503
    /\ last.entry.depth = -1
    /\ last.res = last.entry

MaxIndexLen == 8

IndexLens == 1..MaxIndexLen \cup {1000, 1024, 32767}

KeySamples == {<<a, b, c, d>> : a \in {0, 65535}, b \in {0, 65535},
                                c \in {0, 1, 65535}, d \in {0, 1, 21845, 32767, 32768, 65535}}

WrapKey ==
    /\ last = Idle
    /\ \E key \in KeySamples, len \in IndexLens :
          last' = [op |-> "wrap_key", key |-> key, len |-> len, res |-> wrap(key, len)]
    /\ UNCHANGED table
    /\ UNCHANGED <<threads, ghost>>

NextIndex == WrapKey

SpecIndex == Init /\ [][NextIndex]_vars

\* C13: for every 64-bit key and every table length N >= 1, wrap_key(key) =
\* (key * N) >> 64 lies in [0, N).
C13_IndexRange ==
    last.op = "wrap_key" => (last.res >= 0 /\ last.res < last.len)

\* the largest key lands in the last cell
C13_Witness ==
    /\ last.op = "wrap_key"
    /\ last.key = <<65535, 65535, 65535, 65535>>
    /\ last.len = 1000
    /\ last.res = 999

====
